---------------------------- MODULE Spec2Model ----------------------------
(***************************************************************************)
(* A model of src/app.py: the /generate handler of the AI study assistant  *)
(* (text resolution, PDF text extraction, prompt construction, the remote  *)
(* chat-completion call, the PDF and DOCX renderers).                      *)
(*                                                                         *)
(* A Python str is a sequence of characters; a character is a TLA+ string. *)
(* Fixed literals of the code (a prompt template, the text of an exception)*)
(* are single characters of the model: none of them is whitespace, a smart *)
(* punctuation character or outside Latin-1.  A Python value that may be a *)
(* str or None is a record [type, val].                                    *)
(*                                                                         *)
(* The handler is a coroutine: the code between two awaits runs without    *)
(* interleaving on the event loop, so each action is the code from one     *)
(* await to the next.                                                      *)
(***************************************************************************)
EXTENDS Integers, Sequences, FiniteSets, TLC

\* ------------------------------------------------------------- bounds
NumRequests == 2
MaxTextLen == 2
MaxBatch == 2
MaxNormLen == 3

Requests == 1..NumRequests
\* The temp-file namespace: room for every renderer call, and some to spare.
Names == 1..(2 * NumRequests + 1)

\* ------------------------------------------------------------- characters
RSQUO == "RSQUO"   \* U+2019 right single quotation mark
LDQUO == "LDQUO"   \* U+201C left double quotation mark
RDQUO == "RDQUO"   \* U+201D right double quotation mark
NDASH == "NDASH"   \* U+2013 en dash
BULLET == "BULLET" \* U+2022, a character outside Latin-1 that create_pdf leaves alone
NL == "\n"

SmartChars == {RSQUO, LDQUO, RDQUO, NDASH}
\* Characters the core font of FPDF (Latin-1) cannot encode.
NonLatin1 == SmartChars \cup {BULLET}
\* What str.strip() removes (of the characters of the model).
Whitespace == {" ", NL}

\* ------------------------------------------------------------- Python values
PyStr(s) == [type |-> "str", val |-> s]
PyNone == [type |-> "NoneType", val |-> <<>>]

\* All strings over alphabet A of length at most n.
Strings(A, n) == UNION {[1..k -> A] : k \in 0..n}

\* ------------------------------------------------------------- str methods
RECURSIVE lstrip(_)
lstrip(s) ==
    IF s = <<>> THEN <<>>
    ELSE IF Head(s) \in Whitespace THEN lstrip(Tail(s)) ELSE s

RECURSIVE rstrip(_)
rstrip(s) ==
    IF s = <<>> THEN <<>>
    ELSE IF s[Len(s)] \in Whitespace THEN rstrip(SubSeq(s, 1, Len(s) - 1)) ELSE s

\* str.strip() with no argument
strip(s) == rstrip(lstrip(s))

\* str.replace(old, new) for single characters old and new
replace(s, old, new) == [i \in 1..Len(s) |-> IF s[i] = old THEN new ELSE s[i]]

\* A slip in the last replacement: the en dash becomes a right single quote.
safe_text_dash_to_quote(t) ==
    replace(replace(replace(replace(t, RSQUO, "'"), LDQUO, "\""), RDQUO, "\""), NDASH, RSQUO)

\* create_pdf, line 89: the punctuation normalization
safe_text(t) ==
    replace(replace(replace(replace(t, RSQUO, "'"), LDQUO, "\""), RDQUO, "\""), NDASH, "-")

\* ------------------------------------------------------------- prompts
ValidModes == {"Bullet Points", "Flashcards", "MCQs"}

BulletTemplate == <<"Summarize the lecture into concise bullet points:", NL, NL>>
FlashTemplate == <<"Convert the lecture into question-answer flashcards:", NL, NL>>
FlashFormat == <<NL, "Format: Q: ... A: ...">>
MCQTemplate == <<NL, "Generate 5 multiple-choice questions from the lecture.", NL,
                 "Each question should have 4 options labeled A-D.", NL,
                 "Highlight the correct answer in **bold**.", NL,
                 "Randomize the order of questions and options.", NL,
                 "Lecture: ">>

\* generate_study_notes, lines 50-61: the prompt of a valid mode
BuildPrompt(t, m) ==
    CASE m = "Bullet Points" -> BulletTemplate \o t
      [] m = "Flashcards" -> FlashTemplate \o t \o FlashFormat
      [] m = "MCQs" -> MCQTemplate \o t \o <<NL>>

InvalidMode == <<"Invalid mode selected.">>
NoInputError == <<"Error:", " ", "Please provide lecture text or upload at least one PDF.">>

\* ------------------------------------------------------------- uploaded files
\* An upload is its bytes: none ("empty"), bytes fitz.open rejects ("garbage"),
\* or a PDF that opens, with its pages.  A page has text, or reading it raises
\* (an encrypted document, a damaged page tree).
Page(t) == [readable |-> TRUE, text |-> t]
BadPage == [readable |-> FALSE, text |-> <<>>]
EmptyFile == [bytes |-> "empty", pages |-> <<>>]
GarbageFile == [bytes |-> "garbage", pages |-> <<>>]
Pdf(pages) == [bytes |-> "pdf", pages |-> pages]

\* extract_text_from_pdfs, lines 80-81: the page loop over an opened document.
\* page.get_text() is outside the try of line 76: what it raises propagates.
RECURSIVE ReadPages(_, _)
ReadPages(combined, pages) ==
    IF pages = <<>> THEN [raised |-> FALSE, text |-> combined]
    ELSE IF ~Head(pages).readable THEN [raised |-> TRUE, text |-> combined]
    ELSE ReadPages(combined \o Head(pages).text, Tail(pages))

\* A slip: the separator is appended for a skipped file too.
ExtractFileAlwaysNewline(combined, f) ==
    IF f.bytes # "pdf" THEN [raised |-> FALSE, text |-> combined \o <<NL>>]
    ELSE LET r == ReadPages(combined, f.pages)
         IN  IF r.raised THEN r ELSE [raised |-> FALSE, text |-> r.text \o <<NL>>]

\* extract_text_from_pdfs, lines 73-82: one iteration of the loop over the files
ExtractFile(combined, f) ==
    IF f.bytes = "empty" THEN [raised |-> FALSE, text |-> combined]         \* line 74
    ELSE IF f.bytes = "garbage" THEN [raised |-> FALSE, text |-> combined]  \* line 78
    ELSE LET r == ReadPages(combined, f.pages)
         IN  IF r.raised THEN r ELSE [raised |-> FALSE, text |-> r.text \o <<NL>>]

\* ------------------------------------------------------------- remote API
\* What requests.post and the server can produce for one POST.
Response(err, st, js, c) == [error |-> err, status |-> st, json |-> js, content |-> c]

NoResponse == Response("unsent", 0, "none", PyNone)

\* f"Error: {str(e)}", line 44
ErrorText(e) == PyStr(<<"Error:", " ", e>>)

\* call_openrouter, lines 38-44: the value returned for a response
call_openrouter(resp) ==
    IF resp.error # "none" THEN ErrorText(resp.error)             \* requests.post raises
    ELSE IF resp.status >= 400 THEN ErrorText("HTTPError")         \* raise_for_status
    ELSE IF resp.json = "invalid" THEN ErrorText("JSONDecodeError")
    ELSE IF resp.json \in {"no_choices", "no_message", "no_content"} THEN ErrorText("KeyError")
    ELSE IF resp.json = "empty_choices" THEN ErrorText("IndexError")
    ELSE resp.content                                              \* line 42, whatever it is

\* An inline requests.post: the event loop is held until the response.
run_inline(r) == r

\* lines 37-40: the POST runs on an executor thread; the await frees the event loop
run_in_executor(r) == 0

\* A slip: the POST is sent twice.
PostTwice(prompt) == <<prompt, prompt>>

\* call_openrouter, lines 38-40: the POSTs one call sends
PostRequests(prompt) == <<prompt>>

\* A slip: an unknown mode falls back to the bullet-point prompt.
generate_study_notes_default_bullets(t, m) ==
    IF m \in ValidModes THEN [call |-> TRUE, prompt |-> BuildPrompt(t, m)]
    ELSE [call |-> TRUE, prompt |-> BuildPrompt(t, "Bullet Points")]

\* generate_study_notes, lines 50-65: call the API with a prompt, or not
generate_study_notes(t, m) ==
    IF m \in ValidModes THEN [call |-> TRUE, prompt |-> BuildPrompt(t, m)]
    ELSE [call |-> FALSE, prompt |-> <<>>]

\* The other front end's resolution: pasted and extracted text concatenated.
EffectiveTextConcat(lt, ptext) == strip(strip(lt) \o <<NL>> \o ptext)

\* A slip: the extracted text is not trimmed before it is tested and used.
EffectiveTextUntrimmedPdf(lt, ptext) ==
    LET t == strip(lt)
    IN  IF t = <<>> /\ ptext # <<>> THEN ptext ELSE t

\* generate, lines 182-190: the effective text
EffectiveText(lt, ptext) ==
    LET t == strip(lt)
    IN  IF t = <<>> /\ strip(ptext) # <<>> THEN strip(ptext) ELSE t

\* ------------------------------------------------------------- temp files
NoFile == [owner |-> 0, kind |-> "none", content |-> <<>>, written |-> FALSE]
File(r, k, c, w) == [owner |-> r, kind |-> k, content |-> c, written |-> w]
Existing(fs) == {n \in Names : fs[n].kind # "none"}

\* A slip: a name is drawn without the exclusive-create test.
AnyName(fs) == Names

\* NamedTemporaryFile(delete=False), lines 99 and 110: a random name that does
\* not exist yet (O_EXCL); the file is never deleted.  Names are interchangeable:
\* the draw is the lowest or the highest unused name.
NamedTemporaryFile(fs) ==
    LET free == Names \ Existing(fs)
    IN  {n \in free : (\A k \in free : n <= k) \/ (\A k \in free : n >= k)}

\* create_pdf, lines 88-101: the outcomes of one call.  A value that is not a str
\* raises at line 89.  A character the core font cannot encode raises inside FPDF:
\* in multi_cell (before the temp file exists) or in output (after), by the build.
create_pdf(fs, r, v) ==
    IF v.type # "str" THEN {[raised |-> TRUE, path |-> 0, fs |-> fs]}
    ELSE LET st == safe_text(v.val)
         IN  IF \E i \in 1..Len(st) : st[i] \in NonLatin1
             THEN {[raised |-> TRUE, path |-> 0, fs |-> fs]}
                  \cup {[raised |-> TRUE, path |-> 0,
                         fs |-> [fs EXCEPT ![n] = File(r, "pdf", <<>>, FALSE)]]
                        : n \in NamedTemporaryFile(fs)}
             ELSE {[raised |-> FALSE, path |-> n,
                    fs |-> [fs EXCEPT ![n] = File(r, "pdf", st, TRUE)]]
                   : n \in NamedTemporaryFile(fs)}

\* create_docx, lines 106-112: the outcomes of one call
create_docx(fs, r, v) ==
    IF v.type # "str" THEN {[raised |-> TRUE, path |-> 0, fs |-> fs]}
    ELSE {[raised |-> FALSE, path |-> n,
           fs |-> [fs EXCEPT ![n] = File(r, "docx", v.val, TRUE)]]
          : n \in NamedTemporaryFile(fs)}

\* ------------------------------------------------------------- state
VARIABLES
    pc,             \* per request: "idle", "reading", "awaiting", "done", "faulted"
    lecture_text,   \* per request: the pasted text
    mode,           \* per request: the mode form field
    pdf_file,       \* per request: the uploads, in order
    idx,            \* per request: the upload the extraction loop reads next
    combined_text,  \* per request: extract_text_from_pdfs' accumulator
    pdf_text,       \* per request: generate's pdf_text
    text,           \* per request: generate's text, the effective text
    sent,           \* per request: the prompts POSTed to the API, in order
    response,       \* per request: what the POST ended with (NoResponse before)
    result,         \* per request: generate's result
    pdf_path,       \* per request: the path create_pdf returned (0: none)
    docx_path,      \* per request: the path create_docx returned (0: none)
    fault,          \* per request: where an exception left the handler ("none" if nowhere)
    files,          \* the temp directory: name -> file
    loop,           \* the request holding the event loop across steps (0: free)
    nin,            \* the text given to the punctuation normalization
    nout            \* the successive results of normalizing it

vars == <<pc, lecture_text, mode, pdf_file, idx, combined_text, pdf_text, text, sent,
          response, result, pdf_path, docx_path, fault, files, loop, nin, nout>>

\* No request has arrived; the temp directory is empty.
Idle ==
    /\ pc = [r \in Requests |-> "idle"]
    /\ lecture_text = [r \in Requests |-> <<>>]
    /\ mode = [r \in Requests |-> ""]
    /\ pdf_file = [r \in Requests |-> <<>>]
    /\ idx = [r \in Requests |-> 0]
    /\ combined_text = [r \in Requests |-> <<>>]
    /\ pdf_text = [r \in Requests |-> <<>>]
    /\ text = [r \in Requests |-> <<>>]
    /\ sent = [r \in Requests |-> <<>>]
    /\ response = [r \in Requests |-> NoResponse]
    /\ result = [r \in Requests |-> PyNone]
    /\ pdf_path = [r \in Requests |-> 0]
    /\ docx_path = [r \in Requests |-> 0]
    /\ fault = [r \in Requests |-> "none"]
    /\ files = [n \in Names |-> NoFile]
    /\ loop = 0

Init ==
    /\ Idle
    /\ nin = <<>>
    /\ nout = <<>>

\* generate, lines 198-199 and the return: render v twice, return the bundle.
\* No await: this runs to its end in the step that produced v.
Finish(r, v) ==
    /\ result' = [result EXCEPT ![r] = v]
    /\ \E p \in create_pdf(files, r, v) :
         IF p.raised
         THEN /\ files' = p.fs
              /\ pc' = [pc EXCEPT ![r] = "faulted"]
              /\ fault' = [fault EXCEPT ![r] = "render"]
              /\ UNCHANGED <<pdf_path, docx_path>>
         ELSE \E d \in create_docx(p.fs, r, v) :
                IF d.raised
                THEN /\ files' = d.fs
                     /\ pc' = [pc EXCEPT ![r] = "faulted"]
                     /\ fault' = [fault EXCEPT ![r] = "render"]
                     /\ UNCHANGED <<pdf_path, docx_path>>
                ELSE /\ files' = d.fs
                     /\ pc' = [pc EXCEPT ![r] = "done"]
                     /\ pdf_path' = [pdf_path EXCEPT ![r] = p.path]
                     /\ docx_path' = [docx_path EXCEPT ![r] = d.path]
                     /\ UNCHANGED fault

\* generate, lines 188-196 (and on to 199 when no remote call is made)
Resolve(r, lt, m, ptext) ==
    LET t == EffectiveText(lt, ptext)
        plan == generate_study_notes(t, m)
    IN  /\ pdf_text' = [pdf_text EXCEPT ![r] = ptext]
        /\ text' = [text EXCEPT ![r] = t]
        /\ IF t = <<>>
           THEN /\ Finish(r, PyStr(NoInputError))
                /\ UNCHANGED <<sent, loop>>
           ELSE IF ~plan.call
           THEN /\ Finish(r, PyStr(InvalidMode))
                /\ UNCHANGED <<sent, loop>>
           ELSE /\ sent' = [sent EXCEPT ![r] = @ \o PostRequests(plan.prompt)]
                /\ loop' = run_in_executor(r)
                /\ pc' = [pc EXCEPT ![r] = "awaiting"]
                /\ UNCHANGED <<result, files, pdf_path, docx_path, fault>>

\* POST /generate arrives: lines 182-186 up to the first await.
Accept(r, lt, m, pf) ==
    /\ pc[r] = "idle"
    /\ loop = 0
    /\ lecture_text' = [lecture_text EXCEPT ![r] = lt]
    /\ mode' = [mode EXCEPT ![r] = m]
    /\ pdf_file' = [pdf_file EXCEPT ![r] = pf]
    /\ IF Len(pf) > 0
       THEN /\ pc' = [pc EXCEPT ![r] = "reading"]
            /\ idx' = [idx EXCEPT ![r] = 1]
            /\ UNCHANGED <<combined_text, pdf_text, text, sent, result, pdf_path,
                           docx_path, fault, files, loop>>
       ELSE /\ Resolve(r, lt, m, <<>>)
            /\ UNCHANGED <<idx, combined_text>>
    /\ UNCHANGED <<response, nin, nout>>

\* extract_text_from_pdfs, lines 72-83: `await file.read()` returned for upload idx;
\* after the last upload the handler goes on to line 188 without another await.
ReadFile(r) ==
    /\ pc[r] = "reading"
    /\ loop = 0
    /\ LET e == ExtractFile(combined_text[r], pdf_file[r][idx[r]])
       IN  IF e.raised
           THEN /\ pc' = [pc EXCEPT ![r] = "faulted"]
                /\ fault' = [fault EXCEPT ![r] = "extract"]
                /\ UNCHANGED <<idx, combined_text, pdf_text, text, sent, result,
                               pdf_path, docx_path, files, loop>>
           ELSE /\ combined_text' = [combined_text EXCEPT ![r] = e.text]
                /\ idx' = [idx EXCEPT ![r] = @ + 1]
                /\ IF idx[r] < Len(pdf_file[r])
                   THEN UNCHANGED <<pc, pdf_text, text, sent, result, pdf_path,
                                    docx_path, fault, files, loop>>
                   ELSE Resolve(r, lecture_text[r], mode[r], e.text)
    /\ UNCHANGED <<lecture_text, mode, pdf_file, response, nin, nout>>

\* The POST ended (a response, or an exception of requests): lines 41-44, then
\* generate from line 196 to its return.
Respond(r, resp) ==
    /\ pc[r] = "awaiting"
    /\ loop \in {0, r}
    /\ loop' = 0
    /\ response' = [response EXCEPT ![r] = resp]
    /\ Finish(r, call_openrouter(resp))
    /\ UNCHANGED <<lecture_text, mode, pdf_file, idx, combined_text, pdf_text, text,
                   sent, nin, nout>>

\* create_pdf, line 89, applied to the text, then to its own result
Normalize ==
    /\ Len(nout) < 2
    /\ nout' = Append(nout, safe_text(IF nout = <<>> THEN nin ELSE nout[Len(nout)]))
    /\ UNCHANGED <<pc, lecture_text, mode, pdf_file, idx, combined_text, pdf_text, text,
                   sent, response, result, pdf_path, docx_path, fault, files, loop, nin>>

\* ------------------------------------------------------------- inputs
\* The form fields of one request.
Form(lt, m, pf) == [lecture_text |-> lt, mode |-> m, pdf_file |-> pf]
Forms(T, M, B) == {Form(lt, m, pf) : lt \in T, m \in M, pf \in B}

\* Concurrent requests: few inputs each (nothing usable, pasted text, an upload).
ConcForms ==
    { Form(<<>>, "MCQs", <<>>),
      Form(<<"a">>, "MCQs", <<>>),
      Form(<<>>, "Flashcards", <<Pdf(<<Page(<<"b">>)>>)>>) }
ConcResponses ==
    { Response("Timeout", 0, "none", PyNone),
      Response("none", 200, "ok", PyNone),
      Response("none", 200, "ok", PyStr(<<"n">>)) }

\* One request: every pasted text of the bound, valid and invalid modes, every
\* kind of response, a few batches.
Texts == Strings({"a", " ", NL}, MaxTextLen)
Modes == ValidModes \cup {"Essay", "mcqs", "flashcards", "Bullet Points "}
FewBatches ==
    { <<>>, <<EmptyFile>>, <<Pdf(<<Page(<<" ">>)>>)>>, <<Pdf(<<Page(<<"b">>)>>)>>,
      <<EmptyFile, Pdf(<<Page(<<"b", " ">>)>>)>>, <<Pdf(<<BadPage>>)>> }
Responses ==
    { Response(e, 0, "none", PyNone) : e \in {"ConnectionError", "Timeout"} }
    \cup { Response("none", st, "invalid", PyNone) : st \in {404, 500} }
    \cup { Response("none", 200, js, PyNone) :
             js \in {"invalid", "no_choices", "empty_choices", "no_message", "no_content"} }
    \cup { Response("none", 200, "ok", c) :
             c \in {PyNone, PyStr(<<>>), PyStr(<<"n">>), PyStr(<<RSQUO, NL, "n">>),
                    PyStr(<<BULLET>>)} }

\* One extraction: every batch of the bound.
PageTexts == {<<>>, <<" ">>, <<"b">>}
Uploads ==
    {EmptyFile, GarbageFile, Pdf(<<>>), Pdf(<<BadPage>>)}
    \cup {Pdf(<<Page(t)>>) : t \in PageTexts}
    \cup {Pdf(<<Page(<<"b">>), Page(<<"c">>)>>), Pdf(<<Page(<<"b">>), BadPage>>)}
Batches == Strings(Uploads, MaxBatch)
ExtractTexts == {<<>>, <<"a">>}
ExtractModes == {"Flashcards"}
ExtractResponses == {Response("none", 200, "ok", PyStr(<<"n">>))}

NormInputs == Strings(SmartChars \cup {"a", "'"}, MaxNormLen)

\* ------------------------------------------------------------- specifications
\* A request with one of the forms F arrives.
Arrive(r, F) ==
    /\ pc[r] = "idle"
    /\ \E f \in F : Accept(r, f.lecture_text, f.mode, f.pdf_file)

\* The POST of request r ends with a response of R.
Complete(r, R) ==
    /\ pc[r] = "awaiting"
    /\ \E resp \in R : Respond(r, resp)

Next ==
    \/ \E r \in Requests : Arrive(r, ConcForms)
    \/ \E r \in Requests : ReadFile(r)
    \/ \E r \in Requests : Complete(r, ConcResponses)

Spec == Init /\ [][Next]_vars

\* The POST has a 60 s timeout (line 39), so a pending POST ends, and the event
\* loop resumes the coroutine that awaits it.
FairSpec ==
    /\ Init /\ [][Next]_vars
    /\ WF_vars(\E r \in Requests : Complete(r, ConcResponses))

\* One request, all its inputs.
NextOne ==
    \/ Arrive(1, Forms(Texts, Modes, FewBatches))
    \/ ReadFile(1)
    \/ Complete(1, Responses)

SpecOne == Init /\ [][NextOne]_vars

\* One request, all its batches.
NextExtract ==
    \/ Arrive(1, Forms(ExtractTexts, ExtractModes, Batches))
    \/ ReadFile(1)
    \/ Complete(1, ExtractResponses)

SpecExtract == Init /\ [][NextExtract]_vars

\* The punctuation normalization alone.
InitNorm ==
    /\ Idle
    /\ nin \in NormInputs
    /\ nout = <<>>

SpecNorm == InitNorm /\ [][Normalize]_vars

\* ------------------------------------------------------------- properties
\* What the properties are stated with, defined apart from the operators above.
AllWhitespace(s) == \A i \in 1..Len(s) : s[i] \in Whitespace

\* s from its first to its last character that is not whitespace.
Trimmed(s) ==
    IF AllWhitespace(s) THEN <<>>
    ELSE LET first == CHOOSE i \in 1..Len(s) :
                        s[i] \notin Whitespace /\ \A j \in 1..(i - 1) : s[j] \in Whitespace
             last == CHOOSE i \in 1..Len(s) :
                        s[i] \notin Whitespace /\ \A j \in (i + 1)..Len(s) : s[j] \in Whitespace
         IN  [k \in 1..(last - first + 1) |-> s[first + k - 1]]

\* part occurs in whole as a contiguous run.
Contains(whole, part) ==
    \E i \in 0..(Len(whole) - Len(part)) :
        \A k \in 1..Len(part) : whole[i + k] = part[k]

StartsWith(s, prefix) ==
    /\ Len(s) >= Len(prefix)
    /\ \A k \in 1..Len(prefix) : s[k] = prefix[k]

RECURSIVE Flatten(_)
Flatten(ss) == IF ss = <<>> THEN <<>> ELSE Head(ss) \o Flatten(Tail(ss))

\* An upload that opens and whose pages can all be read.
Readable(f) == f.bytes = "pdf" /\ \A i \in 1..Len(f.pages) : f.pages[i].readable
\* An upload whose pages cannot all be read although it opens.
FailsOnPage(f) == f.bytes = "pdf" /\ \E i \in 1..Len(f.pages) : ~f.pages[i].readable

\* The text of the readable files of a batch, in input order, each file's pages
\* in page order, each file followed by a newline.
TextOfBatch(batch) ==
    Flatten([i \in 1..Len(batch) |->
               IF Readable(batch[i])
               THEN Flatten([j \in 1..Len(batch[i].pages) |-> batch[i].pages[j].text]) \o <<NL>>
               ELSE <<>>])

Terminated(r) == pc[r] \in {"done", "faulted"}
\* The handler of r got past line 190: the effective text is resolved.
Resolved(r) == pc[r] \in {"awaiting", "done"} \/ (pc[r] = "faulted" /\ fault[r] = "render")
\* extract_text_from_pdfs returned for r (it was called: uploads were given).
Extracted(r) == Resolved(r) /\ Len(pdf_file[r]) > 0
OwnedBy(r) == {n \in Names : files[n].kind # "none" /\ files[n].owner = r}

\* C10: normalizing a text twice yields what normalizing it once yields, and the
\* normalized text holds none of the four smart punctuation characters.
C10_NormalizeIdempotent ==
    /\ Len(nout) >= 1 => \A i \in 1..Len(nout[1]) : nout[1][i] \notin SmartChars
    /\ Len(nout) = 2 => nout[2] = nout[1]

\* A text holding a right single quote and an en dash was normalized twice.
C10_Witness ==
    /\ Len(nout) = 2
    /\ \E i, j \in 1..Len(nin) : nin[i] = RSQUO /\ nin[j] = NDASH
    /\ nout[1] # nin

\* C6: the extractor's output is the text of the readable files in input order,
\* pages in page order, a newline after each readable file (so between two of
\* them), and nothing for a skipped file; the accumulator holds that text of the
\* files read so far; for <<zero-length file, a file with text T>> the output is
\* T and one newline.
C6_ExtractOutput ==
    \A r \in Requests :
        /\ pc[r] = "reading" =>
               combined_text[r] = TextOfBatch(SubSeq(pdf_file[r], 1, idx[r] - 1))
        /\ Extracted(r) => pdf_text[r] = TextOfBatch(pdf_file[r])
        /\ ( /\ Extracted(r)
             /\ Len(pdf_file[r]) = 2
             /\ pdf_file[r][1] = EmptyFile
             /\ Readable(pdf_file[r][2])
             /\ Len(pdf_file[r][2].pages) = 1 )
           => pdf_text[r] = pdf_file[r][2].pages[1].text \o <<NL>>

\* A zero-length file, then a file with the text "b", were extracted.
C6_Witness ==
    /\ Extracted(1)
    /\ pdf_file[1] = <<EmptyFile, Pdf(<<Page(<<"b">>)>>)>>
    /\ pdf_text[1] = <<"b", NL>>

\* Two readable files were extracted: a newline stands between them.
C6_WitnessTwoFiles ==
    /\ Extracted(1)
    /\ pdf_file[1] = <<Pdf(<<Page(<<"b">>), Page(<<"c">>)>>), Pdf(<<Page(<<"b">>)>>)>>
    /\ pdf_text[1] = <<"b", "c", NL, "b", NL>>

\* C5: extract_text_from_pdfs never raises, whether an input fails when it is
\* opened or when the text of one of its pages is read.
C5_ExtractNeverRaises ==
    \A r \in Requests : fault[r] # "extract"

\* What does hold: the extractor raises only on a file that opens and whose page
\* cannot be read; empty and unopenable files are skipped and the files after
\* them are extracted.
C5_RaisesOnlyOnPage ==
    \A r \in Requests :
        /\ fault[r] = "extract" => FailsOnPage(pdf_file[r][idx[r]])
        /\ (Len(pdf_file[r]) > 0 /\ \A i \in 1..Len(pdf_file[r]) : ~FailsOnPage(pdf_file[r][i]))
             => fault[r] # "extract"

\* The request gave no usable text: the pasted text is empty or whitespace, and
\* there are no uploads or their extracted text is empty or whitespace.
NoUsableText(r) ==
    /\ AllWhitespace(lecture_text[r])
    /\ AllWhitespace(TextOfBatch(pdf_file[r]))

\* C1: a request whose effective text is empty, whatever its mode, ends with the
\* result "Error: Please provide lecture text or upload at least one PDF." and
\* issues no remote call.
C1_EmptyInputError ==
    \A r \in Requests :
        (Resolved(r) /\ NoUsableText(r)) =>
            /\ pc[r] = "done"
            /\ result[r] = PyStr(NoInputError)
            /\ sent[r] = <<>>
            /\ response[r] = NoResponse

\* Whitespace was pasted with an upload whose text is whitespace, under an
\* invalid mode: the request ended with the fixed error.
C1_Witness ==
    /\ pc[1] = "done"
    /\ lecture_text[1] = <<" ", NL>>
    /\ pdf_file[1] = <<Pdf(<<Page(<<" ">>)>>)>>
    /\ mode[1] = "Essay"
    /\ result[1] = PyStr(NoInputError)

\* C2: with a mode that is none of the three valid ones and a non-empty effective
\* text, no remote call is issued and the result is "Invalid mode selected.".
C2_InvalidMode ==
    \A r \in Requests :
        (Resolved(r) /\ ~NoUsableText(r) /\ mode[r] \notin ValidModes) =>
            /\ pc[r] = "done"
            /\ result[r] = PyStr(InvalidMode)
            /\ sent[r] = <<>>
            /\ response[r] = NoResponse

\* Text was pasted under the mode "mcqs": the request ended with the signal.
C2_Witness ==
    /\ pc[1] = "done"
    /\ mode[1] = "mcqs"
    /\ lecture_text[1] = <<"a", "a">>
    /\ result[1] = PyStr(InvalidMode)
    /\ sent[1] = <<>>

\* A response that is a failure of the remote call: an exception of the HTTP
\* client, a status outside 2xx, or a body that is not a completion with text.
FailedCall(resp) ==
    \/ resp.error \notin {"none", "unsent"}
    \/ resp.error = "none" /\ resp.status \notin 200..299
    \/ resp.error = "none" /\ resp.json # "ok"
    \/ resp.error = "none" /\ resp.json = "ok" /\ resp.content.type # "str"

\* C3: after any failure of the remote call the result is a string that begins
\* with "Error:", and the request renders it to a PDF and a DOCX and returns.
C3_FailureBecomesErrorText ==
    \A r \in Requests :
        FailedCall(response[r]) =>
            /\ result[r].type = "str"
            /\ StartsWith(result[r].val, <<"Error:">>)
            /\ pc[r] = "done"
            /\ files[pdf_path[r]].content = result[r].val
            /\ files[docx_path[r]].content = result[r].val

\* What does hold: the failures that raise in call_openrouter (all but a body
\* whose content is not a string) become an "Error:" text that is rendered.
C3_RaisedFailureBecomesErrorText ==
    \A r \in Requests :
        (FailedCall(response[r]) /\ ~(response[r].json = "ok" /\ response[r].error = "none"
                                      /\ response[r].status < 400)) =>
            /\ result[r].type = "str"
            /\ StartsWith(result[r].val, <<"Error:">>)
            /\ pc[r] = "done"
            /\ files[pdf_path[r]].content = result[r].val
            /\ files[docx_path[r]].content = result[r].val

\* C4: the effective text is the trimmed pasted text when that is not empty,
\* whatever the uploads (no extracted text is in the prompt then), and else the
\* trimmed extracted text; the prompt sent holds the effective text verbatim.
C4_EffectiveText ==
    \A r \in Requests :
        Resolved(r) =>
            /\ text[r] = IF ~AllWhitespace(lecture_text[r])
                         THEN Trimmed(lecture_text[r])
                         ELSE Trimmed(TextOfBatch(pdf_file[r]))
            /\ \A i \in 1..Len(sent[r]) :
                 /\ Contains(sent[r][i], text[r])
                 /\ ~AllWhitespace(lecture_text[r]) =>
                        \A k \in 1..Len(sent[r][i]) : sent[r][i][k] \notin {"b", "c"}

\* Padded text was pasted along with an upload that has text: the prompt was sent.
C4_Witness ==
    /\ pc[1] = "awaiting"
    /\ lecture_text[1] = <<" ", "a">>
    /\ pdf_file[1] = <<Pdf(<<Page(<<"b">>)>>)>>
    /\ text[1] = <<"a">>
    /\ Len(sent[1]) = 1

\* Nothing was pasted; the text of the second upload became the effective text.
C4_WitnessFallback ==
    /\ pc[1] = "awaiting"
    /\ AllWhitespace(lecture_text[1])
    /\ pdf_file[1] = <<EmptyFile, Pdf(<<Page(<<"b", " ">>)>>)>>
    /\ text[1] = <<"b">>
    /\ Contains(sent[1][1], <<"b">>)

\* C9: a request issues at most one remote request: one when its effective text
\* is non-empty and its mode valid, none otherwise; none follows a failed call;
\* the renderers run only after the call has returned or failed.
C9_OneRemoteCall ==
    \A r \in Requests :
        /\ Len(sent[r]) <= 1
        /\ ~Resolved(r) => sent[r] = <<>>
        /\ Resolved(r) =>
             Len(sent[r]) = IF ~NoUsableText(r) /\ mode[r] \in ValidModes THEN 1 ELSE 0
        /\ (OwnedBy(r) # {} \/ pc[r] = "done") =>
             (sent[r] = <<>> \/ response[r] # NoResponse)
        /\ response[r] # NoResponse => Len(sent[r]) = 1 /\ Terminated(r)

\* The one call of a request timed out and the request ended.
C9_Witness ==
    /\ pc[1] = "done"
    /\ response[1].error = "Timeout"
    /\ Len(sent[1]) = 1
    /\ OwnedBy(1) = {pdf_path[1], docx_path[1]}

\* While r waits for its POST, every other request can take its next step.
OthersCanRun(r) ==
    \A q \in Requests \ {r} :
        /\ pc[q] = "idle" => ENABLED Arrive(q, ConcForms)
        /\ pc[q] = "reading" => ENABLED ReadFile(q)
        /\ pc[q] = "awaiting" => ENABLED Complete(q, ConcResponses)

C8_FreshFiles ==
    /\ [](\A r, q \in Requests :
            (pc[r] = "done" /\ pc[q] = "done") =>
                /\ pdf_path[r] # docx_path[q]
                /\ r # q => pdf_path[r] # pdf_path[q] /\ docx_path[r] # docx_path[q]
                /\ OwnedBy(r) = {pdf_path[r], docx_path[r]})
    /\ [][ /\ \A n \in Existing(files) : files'[n] = files[n]
           /\ \A r \in Requests :
                (pc[r] # "done" /\ pc'[r] = "done") =>
                    /\ pdf_path'[r] \notin Existing(files)
                    /\ docx_path'[r] \notin Existing(files)
                    /\ pdf_path'[r] # docx_path'[r]
                    /\ Existing(files') = Existing(files) \cup {pdf_path'[r], docx_path'[r]}
                    /\ files'[pdf_path'[r]].written /\ files'[docx_path'[r]].written
         ]_vars

\* Both requests completed: four files, the earlier request's two untouched.
C8_Witness ==
    /\ pc[1] = "done" /\ pc[2] = "done"
    /\ Cardinality(Existing(files)) = 4
    /\ Cardinality({pdf_path[1], docx_path[1], pdf_path[2], docx_path[2]}) = 4
    /\ response[1] # NoResponse /\ response[2] # NoResponse
=============================================================================
